---- MODULE Spec2Model ----
(***************************************************************************)
(* A model of scraper.py, the MCSO PAID roster scraper: the persisted      *)
(* seen-state, the record extraction / matching / fingerprint pipeline of  *)
(* the two categories, the rate-limited error escalation and the polling   *)
(* loop of main.                                                           *)
(*                                                                         *)
(* Text is modelled as a sequence of one-character strings, so that        *)
(* strip, lower, split, startswith and join are computed as Python         *)
(* computes them.  The characters of the model are those of Latin-1        *)
(* (U+0000 to U+00FF), the ones a string of this module can hold.          *)
(***************************************************************************)
EXTENDS Integers, Sequences, FiniteSets, TLC

(***************************************************************************)
(* Text helpers (Python str methods used by the source)                    *)
(***************************************************************************)

\* the cased characters of Latin-1: A-Z, U+00C0-U+00D6, U+00D8-U+00DE
UpperCase == <<"A","B","C","D","E","F","G","H","I","J","K","L","M",
               "N","O","P","Q","R","S","T","U","V","W","X","Y","Z",
               "À","Á","Â","Ã","Ä","Å","Æ","Ç","È","É","Ê","Ë","Ì",
               "Í","Î","Ï","Ð","Ñ","Ò","Ó","Ô","Õ","Ö","Ø","Ù","Ú",
               "Û","Ü","Ý","Þ">>

\* their lower case, in the same order: a-z, U+00E0-U+00F6, U+00F8-U+00FE
LowerCase == <<"a","b","c","d","e","f","g","h","i","j","k","l","m",
               "n","o","p","q","r","s","t","u","v","w","x","y","z",
               "à","á","â","ã","ä","å","æ","ç","è","é","ê","ë","ì",
               "í","î","ï","ð","ñ","ò","ó","ô","õ","ö","ø","ù","ú",
               "û","ü","ý","þ">>

\* the no-break space U+00A0 (&nbsp;)
NBSP == " "

\* the blanks of Latin-1 that have no escape: U+000B, U+001C, U+001D, U+001E,
\* U+001F, U+0085
ControlBlanks == {"", "", "", "", "", ""}

\* str.isspace for one character: what str.strip() and str.split() drop
IsSpace(c) == c \in {" ", "\t", "\n", "\r", "\f", NBSP} \cup ControlBlanks

\* str.lower for one character
LowerChar(c) ==
  IF \E i \in 1..Len(UpperCase) : UpperCase[i] = c
  THEN LowerCase[CHOOSE i \in 1..Len(UpperCase) : UpperCase[i] = c]
  ELSE c

\* str.lower()
Lower(s) == [i \in 1..Len(s) |-> LowerChar(s[i])]

RECURSIVE LStrip(_)
LStrip(s) ==
  IF s = <<>> THEN <<>>
  ELSE IF IsSpace(Head(s)) THEN LStrip(Tail(s)) ELSE s

RECURSIVE RStrip(_)
RStrip(s) ==
  IF s = <<>> THEN <<>>
  ELSE IF IsSpace(s[Len(s)]) THEN RStrip(SubSeq(s, 1, Len(s) - 1)) ELSE s

\* str.strip()
Strip(s) == RStrip(LStrip(s))

\* str.startswith(p)
StartsWith(s, p) == Len(p) <= Len(s) /\ SubSeq(s, 1, Len(p)) = p

\* the index of the first occurrence of character c in s, 0 when absent
FirstIndex(s, c) ==
  IF \E i \in 1..Len(s) : s[i] = c
  THEN CHOOSE i \in 1..Len(s) : s[i] = c /\ \A j \in 1..(i - 1) : s[j] # c
  ELSE 0

\* the index of the last occurrence of character c in s, 0 when absent
LastIndex(s, c) ==
  IF \E i \in 1..Len(s) : s[i] = c
  THEN CHOOSE i \in 1..Len(s) : s[i] = c /\ \A j \in (i + 1)..Len(s) : s[j] # c
  ELSE 0

\* str.split(): the maximal runs of non-whitespace characters, in order
RECURSIVE SplitWs(_)
SplitWs(s) ==
  LET t == LStrip(s)
      n == IF \E i \in 1..Len(t) : IsSpace(t[i])
           THEN (CHOOSE i \in 1..Len(t) :
                    IsSpace(t[i]) /\ \A j \in 1..(i - 1) : ~IsSpace(t[j])) - 1
           ELSE Len(t)
  IN  IF t = <<>> THEN <<>>
      ELSE <<SubSeq(t, 1, n)>> \o SplitWs(SubSeq(t, n + 1, Len(t)))

\* sep.join(parts)
RECURSIVE JoinWith(_, _)
JoinWith(parts, sep) ==
  IF parts = <<>> THEN <<>>
  ELSE IF Len(parts) = 1 THEN parts[1]
  ELSE parts[1] \o sep \o JoinWith(Tail(parts), sep)

\* [p for p in parts if p]: the non-empty strings of parts, in order
RECURSIVE Truthy(_)
Truthy(parts) ==
  IF parts = <<>> THEN <<>>
  ELSE (IF Head(parts) # <<>> THEN <<Head(parts)>> ELSE <<>>) \o Truthy(Tail(parts))

\* str.split(c): the pieces between the occurrences of c, empty ones included
RECURSIVE SplitOn(_, _)
SplitOn(s, c) ==
  IF FirstIndex(s, c) = 0 THEN <<s>>
  ELSE <<SubSeq(s, 1, FirstIndex(s, c) - 1)>>
       \o SplitOn(SubSeq(s, FirstIndex(s, c) + 1, Len(s)), c)

\* [n.strip() for n in parts if n.strip()]
RECURSIVE StrippedNonBlank(_)
StrippedNonBlank(parts) ==
  IF parts = <<>> THEN <<>>
  ELSE (IF Strip(Head(parts)) # <<>> THEN <<Strip(Head(parts))>> ELSE <<>>)
       \o StrippedNonBlank(Tail(parts))

\* InList without the membership test: every fingerprint looks new
InListNever(x, list) == FALSE

\* x in list
InList(x, list) == \E i \in 1..Len(list) : list[i] = x

(***************************************************************************)
(* name_matches, generate_booking_id                                       *)
(***************************************************************************)

\* what a call returns, or the exception that leaves it
Returns(value) == [raised |-> FALSE, value |-> value]

Raises == [raised |-> TRUE, value |-> FALSE]

\* WatchMatches asking a multi-token entry for the whole first name
WatchMatchesExact(first_name, last_name, watch) ==
  LET watch_lower == Strip(Lower(watch))
      parts       == SplitWs(watch_lower)
  IN  IF Len(parts) = 1
      THEN Returns(last_name = watch_lower \/ first_name = watch_lower)
      ELSE IF Len(parts) = 0
      THEN Raises
      ELSE Returns(\/ last_name = parts[1]
                      /\ first_name = JoinWith(Tail(parts), <<" ">>)
                   \/ first_name = parts[1]
                      /\ last_name = JoinWith(Tail(parts), <<" ">>))

\* one iteration of the loop of name_matches (lines 196-211): whether the
\* watch entry `watch` matches, or the IndexError of parts[0] (line 205) for an
\* entry without a token
WatchMatches(first_name, last_name, watch) ==
  LET watch_lower == Strip(Lower(watch))
      parts       == SplitWs(watch_lower)
  IN  IF Len(parts) = 1
      THEN Returns(last_name = watch_lower \/ first_name = watch_lower)
      ELSE IF Len(parts) = 0
      THEN Raises
      ELSE LET watch_last  == parts[1]
               watch_first == JoinWith(Tail(parts), <<" ">>)
           IN  Returns(\/ last_name = watch_last
                          /\ StartsWith(first_name, watch_first)
                       \/ first_name = parts[1]
                          /\ last_name = JoinWith(Tail(parts), <<" ">>))

\* the loop of name_matches over the outcomes of its iterations: it ends at
\* the first entry that matches (return True, line 207 or 211) or raises;
\* without one it returns False (line 213)
RECURSIVE FirstEnd(_)
FirstEnd(outcomes) ==
  IF outcomes = <<>> THEN Returns(FALSE)
  ELSE IF Head(outcomes) = Returns(FALSE) THEN FirstEnd(Tail(outcomes))
  ELSE Head(outcomes)

name_matches(first_name, last_name, watch_names) ==
  FirstEnd([i \in 1..Len(watch_names) |->
              WatchMatches(Strip(Lower(first_name)), Strip(Lower(last_name)),
                           watch_names[i])])

\* generate_booking_id keeping the empty fields
GenerateBookingIdAll(record) ==
  JoinWith(<<Strip(record.last_name), Strip(record.first_name),
             Strip(record.booking_date), Strip(record.booking_number)>>, <<"|">>)

generate_booking_id(record) ==
  LET parts == <<record.last_name, record.first_name,
                 record.booking_date, record.booking_number>>
      kept == Truthy(parts)
  IN  JoinWith([i \in 1..Len(kept) |-> Strip(kept[i])], <<"|">>)

(***************************************************************************)
(* parse_results_table                                                     *)
(*                                                                         *)
(* A fetched document is [table, tbody, trs]: whether it holds a <table>,  *)
(* whether that table holds a <tbody>, and its <tr> elements in document   *)
(* order (those of the tbody when there is one).  A <tr> is                *)
(* [cells, link, name, href, date]: its number of <td> cells, whether the  *)
(* first cell holds an <a>, the text of the link (or of the cell), the     *)
(* link's href and the text of the second cell.                            *)
(***************************************************************************)

\* Tag.get_text(strip=True) of an element with one text node
get_text(text) == Strip(text)

\* BookingNumberOf keeping the whole href
BookingNumberWhole(href) == href

\* href.split("/")[-1] if href else ""
BookingNumberOf(href) ==
  IF href = <<>> THEN <<>>
  ELSE SubSeq(href, LastIndex(href, "/") + 1, Len(href))

\* the record built from one <tr> with at least two cells (lines 275-306)
ParseRow(row) ==
  LET full_name      == get_text(row.name)
      booking_number == IF row.link THEN BookingNumberOf(row.href) ELSE <<>>
      comma          == FirstIndex(full_name, ",")
      last_name      == IF comma > 0
                        THEN Strip(SubSeq(full_name, 1, comma - 1))
                        ELSE full_name
      first_name     == IF comma > 0
                        THEN Strip(SubSeq(full_name, comma + 1, Len(full_name)))
                        ELSE <<>>
  IN  [last_name      |-> last_name,
       first_name     |-> first_name,
       booking_date   |-> get_text(row.date),
       booking_number |-> booking_number,
       full_name      |-> full_name]

\* the loop over the rows (lines 269-309): rows with fewer than 2 cells are skipped
RECURSIVE ParseRows(_)
ParseRows(rows) ==
  IF rows = <<>> THEN <<>>
  ELSE (IF Head(rows).cells < 2 THEN <<>> ELSE <<ParseRow(Head(rows))>>)
       \o ParseRows(Tail(rows))

\* the data rows (lines 258-264): those of the tbody, else all but the first
DataRows(doc) ==
  IF doc.tbody THEN doc.trs
  ELSE IF Len(doc.trs) > 1 THEN Tail(doc.trs) ELSE <<>>

\* parse_results_table returning [] where it returns None
ParseNoTableAsEmpty(doc) ==
  [found |-> TRUE, records |-> IF doc.table THEN ParseRows(DataRows(doc)) ELSE <<>>]

\* [found |-> FALSE] is the None result: no table on the page
parse_results_table(doc) ==
  IF ~doc.table
  THEN [found |-> FALSE, records |-> <<>>]
  ELSE [found |-> TRUE,  records |-> ParseRows(DataRows(doc))]

(***************************************************************************)
(* Error escalation: report_scraping_error, reset_failure_count            *)
(* Times are minutes on the clock datetime.now() reads.                    *)
(***************************************************************************)

ERROR_REPORT_INTERVAL_HOURS == 4

MinutesPerHour == 60

\* last_error_report_time = None
NoReport == -1

\* ShouldReport with > for >=
ShouldReportStrict(last, t) ==
  \/ last = NoReport
  \/ (t - last) > ERROR_REPORT_INTERVAL_HOURS * MinutesPerHour

\* lines 159-165: should_report
ShouldReport(last, t) ==
  \/ last = NoReport
  \/ (t - last) >= ERROR_REPORT_INTERVAL_HOURS * MinutesPerHour

\* report_scraping_error counting only the failures it escalates
ReportCountingSent(fs, t) ==
  IF ShouldReport(fs.last, t)
  THEN [count |-> fs.count + 1, last |-> t,
        sent  |-> <<[at |-> t, count |-> fs.count + 1]>>]
  ELSE [count |-> fs.count, last |-> fs.last, sent |-> <<>>]

\* report_scraping_error at clock time t, from failure state [count, last]:
\* the new state, and the escalation handed to send_slack_message (if any)
report_scraping_error(fs, t) ==
  LET count == fs.count + 1
  IN  IF ShouldReport(fs.last, t)
      THEN [count |-> count, last |-> t,
            sent  |-> <<[at |-> t, count |-> count]>>]
      ELSE [count |-> count, last |-> fs.last, sent |-> <<>>]

\* reset_failure_count logging outside the if
ResetAlwaysLogging(count) == [count |-> 0, logged |-> 1]

\* reset_failure_count: the new failure_count and the number of recovery log lines
reset_failure_count(count) ==
  IF count > 0 THEN [count |-> 0, logged |-> 1]
  ELSE [count |-> count, logged |-> 0]

(***************************************************************************)
(* Persisted state: load_seen_bookings, save_seen_bookings                 *)
(*                                                                         *)
(* A JSON value stored under "booked" or "released" is [k, items]:         *)
(* k = "list" (items its strings), "absent" (no such key), "obj" (an empty *)
(* JSON object) or "num" (a number).  The file is [kind, top, booked,      *)
(* released]: kind "missing", "unreadable" (open raises IOError),          *)
(* "malformed" (json.load raises JSONDecodeError), "undecodable" (the      *)
(* bytes are not text in the locale's encoding: UnicodeDecodeError) or     *)
(* "json", whose top-level value is top = "dict" or "list".                *)
(***************************************************************************)

JList(items) == [k |-> "list", items |-> items]

JAbsent == [k |-> "absent", items |-> <<>>]

JObj == [k |-> "obj", items |-> <<>>]

JNum == [k |-> "num", items |-> <<>>]

\* {"booked": [], "released": []}
EmptySeen == [booked |-> JList(<<>>), released |-> JList(<<>>)]

FileOf(kind) == [kind |-> kind, top |-> "dict", booked |-> JAbsent, released |-> JAbsent]

JsonFile(data) ==
  [kind |-> "json", top |-> "dict", booked |-> data.booked, released |-> data.released]

JsonTopList == [kind |-> "json", top |-> "list", booked |-> JAbsent, released |-> JAbsent]

\* len(data.get(key, [])) raises TypeError for a value without a length
HasLen(v) == v.k # "num"

\* load_seen_bookings: [crash, data].  crash: an exception that the except
\* clause of line 107 does not catch leaves the function (and main)
load_seen_bookings(file) ==
  IF file.kind \in {"missing", "unreadable", "malformed"}
  THEN [crash |-> FALSE, data |-> EmptySeen]
  ELSE IF file.kind = "undecodable"
  THEN [crash |-> TRUE, data |-> EmptySeen]
  ELSE IF file.top # "dict"
  THEN \* line 105: data.get raises AttributeError
       [crash |-> TRUE, data |-> EmptySeen]
  ELSE IF ~HasLen(file.booked) \/ ~HasLen(file.released)
  THEN \* line 105: len raises TypeError
       [crash |-> TRUE, data |-> EmptySeen]
  ELSE [crash |-> FALSE,
        data  |-> [booked |-> file.booked, released |-> file.released]]

\* save_seen_bookings writing nothing
SaveKeepsFile(data, file, how) == [file |-> file, raised |-> FALSE]

\* save_seen_bookings: [file, raised], the file after the call and whether an
\* exception left it.  how = "no_open" (mkdir or open raises IOError: the file
\* is untouched); "torn" (the write raises IOError after open(.., "w")
\* truncated the file); "ok" (the file is written).  The except clause of
\* line 122 catches IOError alone: once the file is written, line 121 takes
\* len(seen.get(..)) of both values, and the TypeError of a value without a
\* length leaves the function
save_seen_bookings(data, file, how) ==
  IF how = "no_open" THEN [file |-> file, raised |-> FALSE]
  ELSE IF how = "torn" THEN [file |-> FileOf("malformed"), raised |-> FALSE]
  ELSE [file   |-> JsonFile(data),
        raised |-> ~HasLen(data.booked) \/ ~HasLen(data.released)]

(***************************************************************************)
(* The inputs the model draws from                                         *)
(***************************************************************************)

\* watch entries, as WATCH_NAMES holds them (stripped, non-blank: line 62)
W_Doe == <<"D","o","e">>

\* the value of WATCH_NAMES read from the environment variable (line 62)
WatchNamesOf(env) == StrippedNonBlank(SplitOn(env, ","))

\* the environment: WATCH_NAMES unset or empty, blanks and a comma, one name
\* between a no-break space and a carriage return
WatchEnvs == { <<>>, <<" ", ",", "\t">>, <<NBSP,"D","o","e","\r">> }

\* the configurations of WATCH_NAMES
Watchlists == { WatchNamesOf(env) : env \in WatchEnvs }

\* <tr><td><a href="/x/123">Doe, John</a></td><td>1/2</td></tr>
RowDoe ==
  [cells |-> 2, link |-> TRUE,
   name  |-> <<"D","o","e",","," ","J","o","h","n">>,
   href  |-> <<"/","x","/","1","2","3">>,
   date  |-> <<"1","/","2">>]

\* <tr><td>Roe, Jane</td><td>1/3</td></tr>
RowRoe ==
  [cells |-> 2, link |-> FALSE,
   name  |-> <<"R","o","e",","," ","J","a","n","e">>,
   href  |-> <<>>,
   date  |-> <<"1","/","3">>]

\* <tr><td><a href="/x/7"> DOE,Jon </a></td><td> 1/4</td><td>x</td></tr>
RowDoeJon ==
  [cells |-> 3, link |-> TRUE,
   name  |-> <<" ","D","O","E",",","J","o","n"," ">>,
   href  |-> <<"/","x","/","7">>,
   date  |-> <<" ","1","/","4">>]

\* <tr><th>Name</th><th>Date</th></tr>: no <td> at all
RowHeader ==
  [cells |-> 0, link |-> FALSE, name |-> <<>>, href |-> <<>>, date |-> <<>>]

Doc(table, tbody, trs) == [table |-> table, tbody |-> tbody, trs |-> trs]

DocNoTable == Doc(FALSE, FALSE, <<>>)

\* the documents a fetch may return
Docs ==
  { DocNoTable,
    Doc(TRUE, TRUE,  <<>>),
    Doc(TRUE, FALSE, <<RowHeader>>),
    Doc(TRUE, TRUE,  <<RowDoe, RowDoe>>),
    Doc(TRUE, FALSE, <<RowHeader, RowDoe, RowRoe, RowDoeJon>>) }

\* what session.post .. BeautifulSoup (lines 335-347) end with: "page", or
\* raise_for_status raises HTTPError ("http_error"), the request raises another
\* RequestException ("request_exception"), or something else is raised before
\* the table is parsed ("exception": no lxml parser, the debug file)
Fetches ==
  { [kind |-> k, doc |-> DocNoTable] :
       k \in {"http_error", "request_exception", "exception"} }
  \cup { [kind |-> "page", doc |-> d] : d \in Docs }

NoFetch == [kind |-> "none", doc |-> DocNoTable]

\* the fingerprints of the rows above
IdDoe == generate_booking_id(ParseRow(RowDoe))

IdRoe == generate_booking_id(ParseRow(RowRoe))

IdDoeJon == generate_booking_id(ParseRow(RowDoeJon))

\* the contents DATA_FILE may have when the process starts
Files ==
  { FileOf("missing"), FileOf("unreadable"), FileOf("malformed"),
    FileOf("undecodable"),
    JsonTopList,
    JsonFile(EmptySeen),
    JsonFile([booked |-> JList(<<IdDoe>>), released |-> JList(<<>>)]),
    JsonFile([booked |-> JList(<<IdRoe, IdRoe>>), released |-> JList(<<>>)]),
    JsonFile([booked |-> JAbsent, released |-> JAbsent]),
    JsonFile([booked |-> JList(<<>>), released |-> JObj]),
    JsonFile([booked |-> JNum, released |-> JList(<<>>)]) }

\* how a call of save_seen_bookings may end
SaveOutcomes == {"ok", "no_open", "torn"}

\* line 64, its default
POLL_INTERVAL_MINUTES == 15

\* the number of check cycles of a run of the model
MaxCycles == 2

Categories == {"booked", "released"}

(***************************************************************************)
(* The process                                                             *)
(***************************************************************************)

VARIABLES
  pc,                     \* where main is: "start", "booked", "released",
                          \* "finish", "sleep"; "exited" (sys.exit(1));
                          \* "crashed" (an uncaught exception)
  WATCH_NAMES,            \* line 62
  disk,                   \* the contents of DATA_FILE
  seen,                   \* the dict main passes to run_check
  failure_count,          \* line 40
  last_error_report_time, \* line 39
  now,                    \* the clock, in minutes
  cycle,                  \* the number of run_check calls so far
  booked_success,         \* line 504
  released_success,       \* line 505
  fetched,                \* what each category's fetch returned in this cycle
  alerts,                 \* the match messages handed to send_slack_message
  escalations,            \* the error messages handed to send_slack_message
  recoveries,             \* the "Scraping recovered" lines logged
  saves,                  \* the calls of save_seen_bookings
  save_result,            \* how the last call of save_seen_bookings ended:
                          \* "none" before the first, one of SaveOutcomes,
                          \* or "raised" (an exception left the call)
  failure_times,          \* the clock at each failed category since the last
                          \* fully successful cycle (or the start)
  loaded,                 \* what load_seen_bookings returned
  undelivered,            \* the match messages send_slack_message did not deliver
  call,                   \* a call of one function on its own: [fn, args]
  result                  \* what that call returned: [done, value]

vars == <<pc, WATCH_NAMES, disk, seen, failure_count, last_error_report_time,
          now, cycle, booked_success, released_success, fetched, alerts,
          escalations, recoveries, saves, save_result, failure_times, loaded,
          undelivered, call, result>>

NoCall == [fn |-> "none", args |-> <<>>]

NoResult == [done |-> FALSE, value |-> <<>>]

\* the process as main finds it, before any call
ProcessInit ==
  /\ pc = "start"
  /\ WATCH_NAMES \in Watchlists
  /\ disk \in Files
  /\ seen = EmptySeen
  /\ failure_count = 0
  /\ last_error_report_time = NoReport
  /\ now = 0
  /\ cycle = 0
  /\ booked_success = FALSE
  /\ released_success = FALSE
  /\ fetched = [c \in Categories |-> NoFetch]
  /\ alerts = <<>>
  /\ escalations = <<>>
  /\ recoveries = 0
  /\ saves = 0
  /\ save_result = "none"
  /\ failure_times = <<>>
  /\ loaded = EmptySeen
  /\ undelivered = {}

Init ==
  /\ ProcessInit
  /\ call = NoCall
  /\ result = NoResult

\* MarkSeen assigning instead of appending
MarkSeenOnly(items, booking_id) == <<booking_id>>

\* MarkSeen inserting at the front
MarkSeenFirst(items, booking_id) == <<booking_id>> \o items

\* seen[category].append(booking_id)
MarkSeen(items, booking_id) == Append(items, booking_id)

\* MatchLoop without the test of name_matches: every record is marked
RECURSIVE MatchLoopMarkAll(_, _, _)
MatchLoopMarkAll(records, v, watch_names) ==
  IF records = <<>>
  THEN [value |-> v, ids |-> <<>>, raised |-> FALSE]
  ELSE LET booking_id == generate_booking_id(Head(records))
       IN  IF v.k # "list"
           THEN [value |-> v, ids |-> <<>>, raised |-> TRUE]
           ELSE IF InList(booking_id, v.items)
           THEN MatchLoopMarkAll(Tail(records), v, watch_names)
           ELSE LET rest == MatchLoopMarkAll(Tail(records),
                                             JList(MarkSeen(v.items, booking_id)),
                                             watch_names)
                IN  [rest EXCEPT !.ids = <<booking_id>> \o @]

\* the loop over the records (lines 361-384, 452-475) on the value v that
\* seen[category] holds: [value, ids, raised], the value after the loop, the
\* fingerprints of the messages handed to send_slack_message, in order, and
\* whether the loop was left by an exception
RECURSIVE MatchLoop(_, _, _)
MatchLoop(records, v, watch_names) ==
  IF records = <<>>
  THEN [value |-> v, ids |-> <<>>, raised |-> FALSE]
  ELSE LET record     == Head(records)
           booking_id == generate_booking_id(record)
           matches    == name_matches(record.first_name, record.last_name,
                                      watch_names)
       IN  IF matches.raised
           THEN \* a watch entry without a token: IndexError
                [value |-> v, ids |-> <<>>, raised |-> TRUE]
           ELSE IF ~matches.value
           THEN MatchLoop(Tail(records), v, watch_names)
           ELSE IF v.k # "list"
           THEN \* seen[category] raises KeyError (no such key), or
                \* .append raises AttributeError (not a list)
                [value |-> v, ids |-> <<>>, raised |-> TRUE]
           ELSE IF InList(booking_id, v.items)
           THEN MatchLoop(Tail(records), v, watch_names)
           ELSE LET rest == MatchLoop(Tail(records),
                                      JList(MarkSeen(v.items, booking_id)),
                                      watch_names)
                IN  [rest EXCEPT !.ids = <<booking_id>> \o @]

\* the body of fetch_booked_today / fetch_released_last_7_days on what the
\* fetch returned: [value, ids, success, failure], failure being what
\* report_scraping_error returned, or the failure state unchanged
FetchCategory(f, v, fs, t, watch_names) ==
  LET quiet   == [count |-> fs.count, last |-> fs.last, sent |-> <<>>]
      failed  == [value |-> v, ids |-> <<>>, success |-> FALSE,
                  failure |-> report_scraping_error(fs, t)]
      parsed  == parse_results_table(f.doc)
      looped  == MatchLoop(parsed.records, v, watch_names)
  IN  IF f.kind # "page" THEN failed
      ELSE IF ~parsed.found THEN failed
      ELSE IF looped.raised
      THEN [value |-> looped.value, ids |-> looped.ids, success |-> FALSE,
            failure |-> report_scraping_error(fs, t)]
      ELSE [value |-> looped.value, ids |-> looped.ids, success |-> TRUE,
            failure |-> quiet]

Tagged(category, ids) == [i \in 1..Len(ids) |-> [category |-> category, id |-> ids[i]]]

FailureState == [count |-> failure_count, last |-> last_error_report_time]

\* the status of sys.exit(1), line 543
ExitStatus == 1

\* main loading the seen state before it validates the configuration
MainLoadFirst ==
  /\ pc = "start"
  /\ LET l == load_seen_bookings(disk)
     IN  IF l.crash
         THEN /\ pc' = "crashed"
              /\ UNCHANGED <<seen, cycle, loaded>>
         ELSE IF WATCH_NAMES = <<>>
         THEN /\ pc' = "exited"
              /\ loaded' = l.data
              /\ UNCHANGED <<seen, cycle>>
         ELSE /\ pc' = "booked"
              /\ seen' = l.data
              /\ loaded' = l.data
              /\ cycle' = 1
  /\ UNCHANGED <<undelivered, call, result>>
  /\ UNCHANGED <<WATCH_NAMES, disk, failure_count, last_error_report_time, now,
                 booked_success, released_success, fetched, alerts,
                 escalations, recoveries, saves, save_result, failure_times>>

\* main up to the first run_check (lines 541-559); "exited" is sys.exit(1)
Main ==
  /\ pc = "start"
  /\ IF WATCH_NAMES = <<>>
     THEN /\ pc' = "exited"
          /\ UNCHANGED <<seen, cycle, loaded>>
     ELSE LET l == load_seen_bookings(disk)
          IN  IF l.crash
              THEN /\ pc' = "crashed"
                   /\ UNCHANGED <<seen, cycle, loaded>>
              ELSE /\ pc' = "booked"
                   /\ seen' = l.data
                   /\ loaded' = l.data
                   /\ cycle' = 1
  /\ UNCHANGED <<undelivered, call, result>>
  /\ UNCHANGED <<WATCH_NAMES, disk, failure_count, last_error_report_time, now,
                 booked_success, released_success, fetched, alerts,
                 escalations, recoveries, saves, save_result, failure_times>>

\* run_check returning after a failed 'Booked Today'
AfterBookedStopOnFailure(success) == IF success THEN "released" ELSE "finish"

\* lines 504-505: where run_check goes after fetch_booked_today returned
AfterBooked(success) == "released"

\* SeenOf reading the list of 'booked' for both categories
SeenOfBooked(s, category) == s.booked

\* seen["booked"] (lines 368-369), seen["released"] (lines 459-460): the list
\* a category's pass reads and appends to
SeenOf(s, category) == s[category]

\* how requests.post of a message ends (lines 132-143): status 200 ("ok"),
\* another status ("status"), a RequestException ("error")
SinkOutcomes == {"ok", "status", "error"}

\* send_slack_message: whether the message was delivered; it returns normally
\* in every case (without a webhook, line 129 prints the message: "ok")
send_slack_message(outcome) == outcome = "ok"

\* the messages of `sent` that send_slack_message did not deliver, the i-th
\* post ending as outs[i]
Undelivered(sent, outs) ==
  { sent[i] : i \in { j \in 1..Len(sent) : ~send_slack_message(outs[j]) } }

RECURSIVE Without(_, _)
Without(items, ids) ==
  IF items = <<>> THEN <<>>
  ELSE (IF InList(Head(items), ids) THEN <<>> ELSE <<Head(items)>>)
       \o Without(Tail(items), ids)

\* SeenAfterSends marking a fingerprint only once its message is delivered
SeenIfDelivered(v, ids, outs) ==
  IF v.k # "list" THEN v
  ELSE JList(Without(v.items,
                     [i \in 1..Len(ids) |->
                        IF send_slack_message(outs[i]) THEN <<>> ELSE ids[i]]))

\* the value of seen[category] once the messages of ids have been handed to
\* the sink: the append of line 369 precedes the send of line 382 and nothing
\* takes it back, however the send ends
SeenAfterSends(v, ids, outs) == v

\* the most minutes a pass takes on the clock in a run of the model
MaxFetchMinutes == 2

\* the minutes a pass may take on the clock before report_scraping_error
\* reads it (line 156): none when the request returns at once; timeout=60
\* (lines 335, 426) limits the connection and each read, not the request as a
\* whole, so a slow connection followed by a slow answer, or an answer that
\* trickles, takes any number of minutes
FetchMinutes == 0..MaxFetchMinutes

\* fetch_booked_today (lines 317-405), the fetch ending as one of F after one
\* of D minutes and each post to the sink as one of K; the clock is the one
\* the pass reads, or would read, when the request has ended
FetchBookedVia(F, K, D) ==
  /\ pc = "booked"
  /\ \E f \in F, d \in D :
       LET r == FetchCategory(f, SeenOf(seen, "booked"), FailureState, now + d,
                              WATCH_NAMES)
       IN  /\ now' = now + d
           /\ \E outs \in [1..Len(r.ids) -> K] :
                /\ seen' = [seen EXCEPT
                              !.booked = SeenAfterSends(r.value, r.ids, outs)]
                /\ undelivered' = undelivered
                                    \cup Undelivered(Tagged("booked", r.ids), outs)
           /\ alerts' = alerts \o Tagged("booked", r.ids)
           /\ booked_success' = r.success
           /\ failure_count' = r.failure.count
           /\ last_error_report_time' = r.failure.last
           /\ escalations' = escalations \o r.failure.sent
           /\ fetched' = [booked |-> f, released |-> NoFetch]
           /\ failure_times' = IF r.success THEN failure_times
                                ELSE Append(failure_times, now + d)
           /\ pc' = AfterBooked(r.success)
  /\ UNCHANGED <<call, result>>
  /\ UNCHANGED <<WATCH_NAMES, disk, cycle, released_success, recoveries,
                 saves, save_result, loaded>>

\* fetch_booked_today with a sink that delivers and a request that ends within
\* the minute it began in; the clock is read by report_scraping_error alone
\* (line 156), for the escalation, which SpecEscalation follows with FetchMinutes
FetchBookedFrom(F) == FetchBookedVia(F, {"ok"}, {0})

\* fetch_released_last_7_days (lines 408-496), the fetch ending as one of F
\* after one of D minutes and each post to the sink as one of K
FetchReleasedVia(F, K, D) ==
  /\ pc = "released"
  /\ \E f \in F, d \in D :
       LET r == FetchCategory(f, SeenOf(seen, "released"), FailureState, now + d,
                              WATCH_NAMES)
       IN  /\ now' = now + d
           /\ \E outs \in [1..Len(r.ids) -> K] :
                /\ seen' = [seen EXCEPT
                              !.released = SeenAfterSends(r.value, r.ids, outs)]
                /\ undelivered' = undelivered
                                    \cup Undelivered(Tagged("released", r.ids), outs)
           /\ alerts' = alerts \o Tagged("released", r.ids)
           /\ released_success' = r.success
           /\ failure_count' = r.failure.count
           /\ last_error_report_time' = r.failure.last
           /\ escalations' = escalations \o r.failure.sent
           /\ fetched' = [fetched EXCEPT !.released = f]
           /\ failure_times' = IF r.success THEN failure_times
                                ELSE Append(failure_times, now + d)
  /\ pc' = "finish"
  /\ UNCHANGED <<call, result>>
  /\ UNCHANGED <<WATCH_NAMES, disk, cycle, booked_success, recoveries,
                 saves, save_result, loaded>>

\* fetch_released_last_7_days with a sink that delivers and a request that
\* ends within the minute it began in
FetchReleasedFrom(F) == FetchReleasedVia(F, {"ok"}, {0})

\* BothSucceeded with or for and
EitherSucceeded(b, r) == b \/ r

\* line 508
BothSucceeded(b, r) == b /\ r

\* the rest of run_check (lines 507-513), the save ending as one of S; the
\* locals of run_check end with it.  An exception that leaves
\* save_seen_bookings leaves run_check and main (lines 559, 565: no try)
FinishCheckWith(S) ==
  /\ pc = "finish"
  /\ LET r == IF BothSucceeded(booked_success, released_success)
              THEN reset_failure_count(failure_count)
              ELSE [count |-> failure_count, logged |-> 0]
     IN  /\ failure_count' = r.count
         /\ recoveries' = recoveries + r.logged
  /\ \E how \in S :
       LET saved == save_seen_bookings(seen, disk, how)
       IN  /\ disk' = saved.file
           /\ save_result' = IF saved.raised THEN "raised" ELSE how
           /\ pc' = IF saved.raised THEN "crashed" ELSE "sleep"
  /\ saves' = saves + 1
  /\ failure_times' = IF booked_success /\ released_success THEN <<>>
                       ELSE failure_times
  /\ booked_success' = FALSE
  /\ released_success' = FALSE
  /\ fetched' = [c \in Categories |-> NoFetch]
  /\ UNCHANGED <<undelivered, call, result>>
  /\ UNCHANGED <<WATCH_NAMES, seen, last_error_report_time, now, cycle,
                 alerts, escalations, loaded>>

\* the polling loop (lines 562-565): sleep, then the next run_check, the clock
\* then reading some d of D minutes more; the model stops after max cycles
SleepFor(D, max) ==
  /\ pc = "sleep"
  /\ cycle < max
  /\ \E d \in D : now' = now + d
  /\ cycle' = cycle + 1
  /\ pc' = "booked"
  /\ UNCHANGED <<undelivered, call, result>>
  /\ UNCHANGED <<WATCH_NAMES, disk, seen, failure_count, last_error_report_time,
                 booked_success, released_success, fetched, alerts,
                 escalations, recoveries, saves, save_result, failure_times,
                 loaded>>

\* line 504
fetch_booked_today == FetchBookedFrom(Fetches)

\* line 505
fetch_released_last_7_days == FetchReleasedFrom(Fetches)

FinishCheck == FinishCheckWith(SaveOutcomes)

Sleep == SleepFor({POLL_INTERVAL_MINUTES}, MaxCycles)

Next ==
  \/ Main
  \/ fetch_booked_today
  \/ fetch_released_last_7_days
  \/ FinishCheck
  \/ Sleep

Spec == Init /\ [][Next]_vars

(***************************************************************************)
(* The escalation policy over longer runs: the same process, started with  *)
(* no DATA_FILE, each fetch either failing or returning an empty table.    *)
(***************************************************************************)

\* the number of check cycles of a run under SpecEscalation
MaxEscCycles == 4

\* the minutes of time.sleep between two cycles; the minutes of the passes
\* (FetchMinutes) come on top, so that 239 and 240 minutes both occur between
\* two readings of the clock
EscSleepMinutes == {60, 179}

\* a request that fails, or a page with an empty table
EscFetches ==
  { [kind |-> "request_exception", doc |-> DocNoTable],
    [kind |-> "page", doc |-> Doc(TRUE, TRUE, <<>>)] }

InitEscalation ==
  /\ Init
  /\ WATCH_NAMES = <<W_Doe>>
  /\ disk = FileOf("missing")

EscFetchBooked == FetchBookedVia(EscFetches, {"ok"}, FetchMinutes)

EscFetchReleased == FetchReleasedVia(EscFetches, {"ok"}, FetchMinutes)

EscFinishCheck == FinishCheckWith({"ok"})

EscSleep == SleepFor(EscSleepMinutes, MaxEscCycles)

NextEscalation ==
  \/ Main
  \/ EscFetchBooked
  \/ EscFetchReleased
  \/ EscFinishCheck
  \/ EscSleep

SpecEscalation == InitEscalation /\ [][NextEscalation]_vars

(***************************************************************************)
(* The process with a sink that may fail: every post of a match message    *)
(* ends as any of SinkOutcomes.  One watch name, no seen-state file, pages *)
(* with matching records or a failed request, saves that succeed.          *)
(***************************************************************************)
SinkFetches ==
  { [kind |-> "request_exception", doc |-> DocNoTable],
    [kind |-> "page", doc |-> Doc(TRUE, TRUE, <<RowDoe, RowDoe>>)],
    [kind |-> "page", doc |-> Doc(TRUE, FALSE, <<RowHeader, RowDoe, RowRoe, RowDoeJon>>)] }

InitSink ==
  /\ Init
  /\ WATCH_NAMES = <<W_Doe>>
  /\ disk = FileOf("missing")

SinkFetchBooked == FetchBookedVia(SinkFetches, SinkOutcomes, {0})

SinkFetchReleased == FetchReleasedVia(SinkFetches, SinkOutcomes, {0})

SinkFinishCheck == FinishCheckWith({"ok"})

SinkSleep == SleepFor({POLL_INTERVAL_MINUTES}, MaxCycles)

NextSink ==
  \/ Main
  \/ SinkFetchBooked
  \/ SinkFetchReleased
  \/ SinkFinishCheck
  \/ SinkSleep

SpecSink == InitSink /\ [][NextSink]_vars

(***************************************************************************)
(* The functions called on their own: one call per behaviour, drawn from   *)
(* the inputs below, and one action per function that applies it.          *)
(***************************************************************************)

\* <tr><td>Doe, John</td></tr>: one cell only
RowOneCell ==
  [cells |-> 1, link |-> FALSE,
   name  |-> <<"D","o","e",","," ","J","o","h","n">>,
   href  |-> <<>>,
   date  |-> <<>>]

\* <tr><td><a href="">Cher</a></td><td>1/5</td></tr>: no comma, empty href
RowNoComma ==
  [cells |-> 2, link |-> TRUE,
   name  |-> <<"C","h","e","r">>,
   href  |-> <<>>,
   date  |-> <<"1","/","5">>]

\* <tr><td>&nbsp;</td><td>1/6</td></tr>: a name cell with no text
RowNoName ==
  [cells |-> 2, link |-> FALSE,
   name  |-> <<NBSP>>,
   href  |-> <<>>,
   date  |-> <<"1","/","6">>]

\* <tr><td><a href="/x/9">, John</a></td><td>1/7</td></tr>: nothing before the comma
RowCommaFirst ==
  [cells |-> 2, link |-> TRUE,
   name  |-> <<",", " ", "J","o","h","n">>,
   href  |-> <<"/","x","/","9">>,
   date  |-> <<"1","/","7">>]

\* <tr><td><a href="/x/123">Doe, John</a></td><td>01/02/2024</td></tr>
RowExampleDoe ==
  [cells |-> 2, link |-> TRUE,
   name  |-> <<"D","o","e",","," ","J","o","h","n">>,
   href  |-> <<"/","x","/","1","2","3">>,
   date  |-> <<"0","1","/","0","2","/","2","0","2","4">>]

\* <tr><td>Roe, Jane</td><td>01/03/2024</td></tr>
RowExampleRoe ==
  [cells |-> 2, link |-> FALSE,
   name  |-> <<"R","o","e",","," ","J","a","n","e">>,
   href  |-> <<>>,
   date  |-> <<"0","1","/","0","3","/","2","0","2","4">>]

DocExample == Doc(TRUE, TRUE, <<RowExampleDoe, RowExampleRoe>>)

\* the <tr> elements the parsed documents are made of
RowPool ==
  { RowDoe, RowRoe, RowDoeJon, RowHeader, RowOneCell, RowNoComma, RowNoName,
    RowCommaFirst }

\* the longest list of <tr> elements drawn from RowPool
MaxRows == 2

RowLists == UNION { [1..n -> RowPool] : n \in 0..MaxRows }

\* the documents parse_results_table is called on
ParseDocs ==
  { DocNoTable, DocExample }
    \cup { Doc(TRUE, tb, trs) : tb \in BOOLEAN, trs \in RowLists }

ParseCalls == { [fn |-> "parse_results_table", args |-> <<d>>] : d \in ParseDocs }

\* the first and last names name_matches is called with
T_John == <<"J","o","h","n">>

T_Johnathan == <<"J","o","h","n","a","t","h","a","n">>

T_Jon == <<"J","o","n">>

T_VanDyke == <<"V","a","n"," ","D","y","k","e">>

T_Jose == <<"J","O","S","É">>

NameFirsts == { T_John, T_Johnathan, T_Jon, T_Jose, <<>>, <<" ","J","O","H","N"," ">>, W_Doe }

NameLasts == { W_Doe, <<"D","O","E"," ">>, T_VanDyke, T_John, <<>> }

\* watch entries as WATCH_NAMES holds them (line 62): stripped and not blank
E_DoeJohn == <<"D","o","e"," ","J","o","h","n">>

E_JohnDoe == <<"J","o","h","n"," ","D","o","e">>

E_JohnVanDyke == <<"J","o","h","n"," ","V","a","n"," ","D","y","k","e">>

E_DoeJose == <<"d","o","e","\f","J","o","s","é">>

WatchEntries ==
  { W_Doe, E_DoeJohn, E_JohnDoe, E_DoeJose, <<"d","o","e"," "," ","	","J","O","H","N">>, E_JohnVanDyke, <<"J","o">> }

\* the longest watchlist of the calls
MaxWatch == 2

WatchLists == UNION { [1..n -> WatchEntries] : n \in 0..MaxWatch }

NameCalls ==
  { [fn |-> "name_matches", args |-> <<f, l, w>>] :
      f \in NameFirsts, l \in NameLasts, w \in WatchLists }

\* the records generate_booking_id is called on: every field present or
\* empty; booking_number, which line 283 cuts out of the href unstripped,
\* also with a trailing blank and as a blank alone
T_Date == <<"1","/","2">>

T_Number == <<"1","2","3">>

T_NumberBlank == <<"7"," ">>

IdRecords ==
  { [last_name |-> l, first_name |-> f, booking_date |-> d,
     booking_number |-> n, full_name |-> u] :
      l \in {W_Doe, <<>>}, f \in {T_John, <<>>}, d \in {T_Date, <<>>},
      n \in {T_Number, <<>>, T_NumberBlank, <<" ">>},
      u \in {<<"D","o","e",","," ","J","o","h","n">>, <<"x">>} }

IdCalls == { [fn |-> "generate_booking_id", args |-> <<r>>] : r \in IdRecords }

\* <tr><td><a href="/x/123">Doe, John</a></td><td></td></tr>: no date
RowNoDate ==
  [cells |-> 2, link |-> TRUE,
   name  |-> <<"D","o","e",","," ","J","o","h","n">>,
   href  |-> <<"/","x","/","1","2","3">>,
   date  |-> <<>>]

\* <tr><td>Doe, John</td><td>123</td></tr>: no link, 123 in the date cell
RowDateOnly ==
  [cells |-> 2, link |-> FALSE,
   name  |-> <<"D","o","e",","," ","J","o","h","n">>,
   href  |-> <<>>,
   date  |-> <<"1","2","3">>]

\* the records of two rows, the second one notified before the first is met
PairRows ==
  { RowDoe, RowRoe, RowDoeJon, RowNoComma, RowNoName, RowCommaFirst,
    RowNoDate, RowDateOnly }

SeenCalls ==
  { [fn |-> "already_seen", args |-> <<ParseRow(r), ParseRow(n)>>] :
      r \in PairRows, n \in PairRows }

\* the test of lines 366-368 on a record, when the seen list holds the
\* fingerprint of the record `notified`
AlreadySeen(record, notified) ==
  InList(generate_booking_id(record), <<generate_booking_id(notified)>>)

Calls == ParseCalls \cup NameCalls \cup IdCalls \cup SeenCalls

InitCalls ==
  /\ ProcessInit
  /\ WATCH_NAMES = <<W_Doe>>
  /\ disk = FileOf("missing")
  /\ call \in Calls
  /\ result = NoResult

Returning(fn, value) ==
  /\ call.fn = fn
  /\ ~result.done
  /\ result' = [done |-> TRUE, value |-> value]
  /\ UNCHANGED <<pc, WATCH_NAMES, disk, seen, failure_count,
                 last_error_report_time, now, cycle, booked_success,
                 released_success, fetched, alerts, escalations, recoveries,
                 saves, save_result, failure_times, loaded, undelivered, call>>

CallParseResultsTable ==
  Returning("parse_results_table", parse_results_table(call.args[1]))

CallNameMatches ==
  Returning("name_matches",
            name_matches(call.args[1], call.args[2], call.args[3]))

CallGenerateBookingId ==
  Returning("generate_booking_id", generate_booking_id(call.args[1]))

CallAlreadySeen ==
  Returning("already_seen", AlreadySeen(call.args[1], call.args[2]))

NextCalls ==
  \/ CallParseResultsTable
  \/ CallNameMatches
  \/ CallGenerateBookingId
  \/ CallAlreadySeen

SpecCalls == InitCalls /\ [][NextCalls]_vars

(***************************************************************************)
(* Properties                                                              *)
(***************************************************************************)

\* the number of times x occurs in seq
Count(seq, x) == Cardinality({i \in 1..Len(seq) : seq[i] = x})

Has(seq, x) == \E i \in 1..Len(seq) : seq[i] = x

Alert(category, id) == [category |-> category, id |-> id]

\* the fingerprints of the records of doc whose name is on the watchlist
MatchingIds(doc) ==
  LET records == IF doc.table THEN ParseRows(DataRows(doc)) ELSE <<>>
  IN  { generate_booking_id(records[i]) :
          i \in { j \in 1..Len(records) :
                    name_matches(records[j].first_name, records[j].last_name,
                                 WATCH_NAMES) = Returns(TRUE) } }

\* the category's pass of the current cycle has returned, with success
Processed(category) ==
  IF category = "booked"
  THEN pc \in {"released", "finish"} /\ booked_success
  ELSE pc = "finish" /\ released_success

DocDoeTwice == Doc(TRUE, TRUE, <<RowDoe, RowDoe>>)

DocMixed == Doc(TRUE, FALSE, <<RowHeader, RowDoe, RowRoe, RowDoeJon>>)

\* C1: a match message is sent at most once per (category, fingerprint), in
\* any cycle and for any pages; and once a category's pass has succeeded on a
\* page, every matching record of that page has been notified exactly once by
\* this process (never, if its fingerprint was in the loaded state), however
\* often it occurred on this page or on the pages of earlier cycles.
C1_OncePerFingerprint ==
  /\ \A i, j \in 1..Len(alerts) : alerts[i] = alerts[j] => i = j
  /\ \A c \in Categories :
       Processed(c) =>
         \A id \in MatchingIds(fetched[c].doc) :
           Count(alerts, Alert(c, id)) = IF Has(loaded[c].items, id) THEN 0 ELSE 1

\* C1's case: the second cycle's 'Booked Today' pass has succeeded on a page
\* showing the same row twice, both alerts for it date from the first cycle
C1_Witness ==
  /\ cycle = 2
  /\ pc = "released"
  /\ booked_success
  /\ fetched.booked.doc = DocDoeTwice
  /\ alerts = <<Alert("booked", IdDoe), Alert("released", IdDoe)>>

\* C2: the SeenSet is append-only: in every step, each fingerprint that is in
\* seen['booked'] or seen['released'] before the step is in that list after it.
C2_AppendOnly ==
  [][\A c \in Categories :
       \A i \in 1..Len(seen[c].items) : Has(seen'[c].items, seen[c].items[i])]_vars

\* C2's case: two fingerprints marked in the first cycle are still there after
\* a second cycle in which a category failed
C2_Witness ==
  /\ cycle = 2
  /\ pc = "sleep"
  /\ seen.booked.items = <<IdDoe, IdDoeJon>>
  /\ failure_times = <<15>>

\* this step calls report_scraping_error: a category's pass fails in it
ReportCalled == Len(failure_times') = Len(failure_times) + 1

\* no escalation was sent yet, or the last one is at least 4 hours old on the
\* clock this step reads
EscalationDue ==
  \/ escalations = <<>>
  \/ now' - escalations[Len(escalations)].at >= 4 * 60

\* C3: a call of report_scraping_error sends an escalation if and only if none
\* was sent since the process started or at least 4 hours have passed since the
\* last one, and nothing else sends one; so any two escalations are at least 4
\* hours apart, and failures at 0h, 1h, 2h and 5h give exactly two escalations,
\* at 0h and at 5h.
C3_EscalationCooldown ==
  /\ [][/\ ReportCalled =>
             IF EscalationDue
             THEN /\ Len(escalations') = Len(escalations) + 1
                  /\ SubSeq(escalations', 1, Len(escalations)) = escalations
                  /\ escalations'[Len(escalations')].at = now'
             ELSE escalations' = escalations
        /\ ~ReportCalled => escalations' = escalations]_vars
  /\ [](\A i, j \in 1..Len(escalations) :
          i < j => escalations[j].at - escalations[i].at >= 4 * 60)
  /\ [](failure_times = <<0, 60, 120, 300>> =>
          /\ Len(escalations) = 2
          /\ escalations[1].at = 0
          /\ escalations[2].at = 300)

\* C3's case: failures at 0h, 1h, 2h and 5h, no fully successful cycle between
C3_Witness ==
  /\ failure_times = <<0, 60, 120, 300>>
  /\ Len(escalations) = 2
  /\ last_error_report_time = 300

\* C4: every call of report_scraping_error adds exactly 1 to failure_count,
\* whether it sends or suppresses the escalation, so failure_count is the number
\* of failures since the last reset (or the start) and an escalation reports
\* that number; after failures at 0h, 1h, 2h and 5h the second one reports 4.
C4_FailureCount ==
  /\ [][/\ ReportCalled => failure_count' = failure_count + 1
        /\ Len(escalations') > Len(escalations) =>
             escalations'[Len(escalations')].count = Len(failure_times')]_vars
  /\ [](failure_count = Len(failure_times))
  /\ [](failure_times = <<0, 60, 120, 300>> /\ Len(escalations) = 2 =>
          escalations[2].count = 4)

\* C4's case: the second escalation, sent at 5h, reports 4 failures, two of
\* them suppressed
C4_Witness ==
  /\ failure_times = <<0, 60, 120, 300>>
  /\ escalations = <<[at |-> 0, count |-> 1], [at |-> 300, count |-> 4]>>
  /\ failure_count = 4

\* C5: reset_failure_count, which run_check calls when both categories
\* succeeded, leaves failure_count at 0 and logs a recovery exactly when the
\* count was not 0 before; nothing else logs one.  So the first fully
\* successful cycle after failures logs one recovery and the next ones none.
C5_Recovery ==
  [][IF pc = "finish" /\ booked_success /\ released_success
     THEN /\ failure_count' = 0
          /\ recoveries' = recoveries + (IF failure_count > 0 THEN 1 ELSE 0)
     ELSE recoveries' = recoveries]_vars

\* C5's case: a recovery was logged by an earlier cycle, and a later cycle is
\* about to call reset_failure_count with the count at 0
C5_Witness ==
  /\ pc = "finish"
  /\ booked_success /\ released_success
  /\ failure_count = 0
  /\ recoveries = 1

\* C6: run_check resets the failure count if and only if both categories of the
\* cycle succeeded: with a failed category the count is never lowered during
\* the cycle and is not 0 at its end; with both succeeded the cycle ends with
\* the count at 0.
C6_ResetIffBoth ==
  [][/\ pc = "finish" =>
          IF booked_success /\ released_success
          THEN failure_count' = 0
          ELSE /\ failure_count' = failure_count
               /\ failure_count' > 0
               /\ recoveries' = recoveries
     /\ pc \in {"booked", "released"} => failure_count' >= failure_count]_vars

\* C6's case: the first cycle failed twice, the second failed once and
\* succeeded once, and has ended with the count at 3
C6_Witness ==
  /\ pc = "sleep"
  /\ cycle = 2
  /\ failure_times = <<0, 0, 15>>
  /\ failure_count = 3

\* C7: whatever 'Booked Today' ended with, 'Released Last 7 Days' is attempted
\* in the same cycle, and when its pass succeeds every matching record of its
\* page is marked in seen['released'] and has been notified once (or was in the
\* loaded state).
C7_ReleasedIndependent ==
  pc = "finish" =>
    /\ fetched.booked \in Fetches
    /\ fetched.released \in Fetches
    /\ released_success =>
         \A id \in MatchingIds(fetched.released.doc) :
           /\ Has(seen.released.items, id)
           /\ \/ Count(alerts, Alert("released", id)) = 1
              \/ Has(loaded.released.items, id)

\* C7's case: 'Booked Today' ended with a processing error, and the release
\* pass of the same cycle notified and marked its two matches
C7_Witness ==
  /\ pc = "finish"
  /\ fetched.booked.kind = "exception"
  /\ ~booked_success
  /\ fetched.released.doc = DocMixed
  /\ seen.released.items = <<IdDoe, IdDoeJon>>
  /\ alerts = <<Alert("released", IdDoe), Alert("released", IdDoeJon)>>

\* C8: every check cycle ends with exactly one call of save_seen_bookings,
\* after both categories, whether they succeeded or failed, and the call writes
\* the whole in-memory SeenSet: unless the write raised IOError, the file then
\* holds both lists as they are in memory.  The call always returns: the values
\* main holds under both keys have a length (line 105 lets no other through,
\* lines 369 and 460 append to lists), so line 121 never raises.
C8_SavedEveryCycle ==
  /\ save_result # "raised"
  /\ pc = "crashed" => saves = 0
  /\ pc \in {"booked", "released", "finish"} => saves = cycle - 1
  /\ pc = "sleep" =>
       /\ saves = cycle
       /\ save_result \in SaveOutcomes
       /\ save_result = "ok" =>
            disk = [kind |-> "json", top |-> "dict",
                    booked |-> seen.booked, released |-> seen.released]

\* C8's case: the first cycle marked a booking and had one category fail, and
\* the file written at its end holds the booking
C8_Witness ==
  /\ pc = "sleep"
  /\ cycle = 1
  /\ loaded = EmptySeen
  /\ failure_times = <<0>>
  /\ save_result = "ok"
  /\ disk.booked.items = <<IdDoe>>

\* the page f holds a table with no data row
ZeroDataRows(f) ==
  /\ f.kind = "page"
  /\ f.doc.table
  /\ IF f.doc.tbody THEN f.doc.trs = <<>> ELSE Len(f.doc.trs) <= 1

NoTablePage(f) == f.kind = "page" /\ ~f.doc.table

\* what C9 says of one category's pass on what it fetched
C9_Pass(f, success) ==
  /\ NoTablePage(f) =>
       /\ ~success
       /\ failure_count' = failure_count + 1
       /\ failure_times' = Append(failure_times, now)
       /\ alerts' = alerts
       /\ seen' = seen
  /\ ZeroDataRows(f) =>
       /\ success
       /\ failure_count' = failure_count
       /\ escalations' = escalations
       /\ alerts' = alerts
       /\ seen' = seen

\* C9: a fetched page with no table makes the category fail: the failure is
\* reported to the escalation policy, no match message is sent and the SeenSet
\* is unchanged; a page whose table has no data row is a success that reports
\* no failure (and, having no record, notifies and marks nothing).
C9_NoTableFails ==
  [][/\ pc = "booked" => C9_Pass(fetched'.booked, booked_success')
     /\ pc = "released" => C9_Pass(fetched'.released, released_success')]_vars

\* C9's case: in one cycle 'Booked Today' had no table and failed, leaving the
\* fingerprint marked earlier, and 'Released' had a header row only and succeeded
C9_Witness ==
  /\ pc = "finish"
  /\ cycle = 2
  /\ fetched.booked.doc = DocNoTable /\ fetched.booked.kind = "page"
  /\ ~booked_success
  /\ fetched.released.doc = Doc(TRUE, FALSE, <<RowHeader>>)
  /\ released_success
  /\ failure_times = <<15>>
  /\ seen.booked.items = <<IdDoe>>

\* the file holds a JSON object with a 'booked' and a 'released' list
Conforming(file) ==
  /\ file.kind = "json"
  /\ file.top = "dict"
  /\ file.booked.k = "list"
  /\ file.released.k = "list"

\* C10: loading the persisted state never crashes the process, and for a
\* missing, unreadable or malformed file, or JSON that is not an object with a
\* 'booked' and a 'released' list, the first cycle starts with two empty sets.
C10_LoadFallsBack ==
  /\ pc # "crashed"
  /\ (pc = "booked" /\ cycle = 1 /\ ~Conforming(disk)) => seen = EmptySeen

\* the call of fn has returned
Returned(fn) == call.fn = fn /\ result.done

\* C11: every record parse_results_table returns has a non-empty last_name: a
\* row whose name cell has no text, or no text before its first comma, yields
\* no record.
C11_LastNameNonEmpty ==
  Returned("parse_results_table") =>
    \A i \in 1..Len(result.value.records) :
      result.value.records[i].last_name # <<>>

\* a name or a watch entry as the comparisons see it: trimmed and lower-cased
Norm(name) == Strip(Lower(name))

Tokens(entry) == SplitWs(Norm(entry))

Remainder(entry) == JoinWith(Tail(Tokens(entry)), <<" ">>)

\* the three ways an entry matches a record's names
EntrySatisfied(first, last, entry) ==
  \/ /\ Len(Tokens(entry)) = 1
     /\ Norm(last) = Tokens(entry)[1] \/ Norm(first) = Tokens(entry)[1]
  \/ /\ Len(Tokens(entry)) > 1
     /\ Norm(last) = Tokens(entry)[1]
     /\ StartsWith(Norm(first), Remainder(entry))
  \/ /\ Len(Tokens(entry)) > 1
     /\ Norm(first) = Tokens(entry)[1]
     /\ Norm(last) = Remainder(entry)

\* the call name_matches(first, last, [entry]) has returned `expected`
Example(first, last, entry, expected) ==
  call.args = <<first, last, <<entry>> >> => result.value = Returns(expected)

\* C12: name_matches returns true iff some watch entry, trimmed and
\* lower-cased, matches as a single token (last or first name equals it), as
\* "Last First..." (last name equals the first token, first name starts with
\* the rest joined by spaces) or as "First Last..." (both equal).  'Doe'
\* matches (John, Doe); 'Doe John' matches (Johnathan, Doe), not (Jon, Doe);
\* 'John Doe' matches (John, Doe), not (Johnathan, Doe).
C12_NameMatches ==
  Returned("name_matches") =>
    /\ result.value =
         Returns(\E i \in 1..Len(call.args[3]) :
                   EntrySatisfied(call.args[1], call.args[2], call.args[3][i]))
    /\ Example(T_John, W_Doe, W_Doe, TRUE)
    /\ Example(T_Johnathan, W_Doe, E_DoeJohn, TRUE)
    /\ Example(T_Jon, W_Doe, E_DoeJohn, FALSE)
    /\ Example(T_John, W_Doe, E_JohnDoe, TRUE)
    /\ Example(T_Johnathan, W_Doe, E_JohnDoe, FALSE)

\* 'Doe John' has matched (Johnathan, Doe) by the prefix of the first name
C12_Witness ==
  /\ Returned("name_matches")
  /\ call.args = <<T_Johnathan, W_Doe, <<E_DoeJohn>> >>
  /\ result.value = Returns(TRUE)

\* a field as a list of segments: none when it is empty, else the field itself
Segment(field) == IF field = <<>> THEN <<>> ELSE <<field>>

\* ... else the field without its surrounding whitespace
StrippedSegment(field) == IF field = <<>> THEN <<>> ELSE <<Strip(field)>>

\* C13 as stated: generate_booking_id returns last_name, first_name,
\* booking_date, booking_number, in that order, the empty ones omitted, joined
\* by '|', whatever full_name is.
C13_FieldsJoined ==
  Returned("generate_booking_id") =>
    LET r == call.args[1]
    IN  result.value =
          JoinWith(Segment(r.last_name) \o Segment(r.first_name)
                     \o Segment(r.booking_date) \o Segment(r.booking_number),
                   <<"|">>)

\* C13: generate_booking_id returns last_name, first_name, booking_date,
\* booking_number, in that order, joined by '|', each without its surrounding
\* whitespace, the fields that are empty before that removal omitted; the
\* result is a function of these four fields alone, whatever full_name is.
C13_StrippedFieldsJoined ==
  Returned("generate_booking_id") =>
    LET r == call.args[1]
    IN  result.value =
          JoinWith(StrippedSegment(r.last_name) \o StrippedSegment(r.first_name)
                     \o StrippedSegment(r.booking_date)
                     \o StrippedSegment(r.booking_number),
                   <<"|">>)

\* the fingerprint of a record whose booking_number ends with a blank
C13_Witness ==
  /\ Returned("generate_booking_id")
  /\ call.args[1].booking_number = T_NumberBlank
  /\ call.args[1].first_name = <<>>
  /\ result.value = <<"D","o","e","|","1","/","2","|","7">>

\* C14: with an empty watchlist the process exits with a non-zero status
\* before it loads the seen state and before any cycle: it never fetches,
\* never sends a message and never writes the persisted state.
C14_EmptyWatchlistExits ==
  /\ [](WATCH_NAMES = <<>> =>
          /\ pc \in {"start", "exited"}
          /\ pc = "exited" => ExitStatus # 0
          /\ cycle = 0
          /\ loaded = EmptySeen /\ seen = EmptySeen
          /\ fetched = [c \in Categories |-> NoFetch]
          /\ alerts = <<>> /\ escalations = <<>> /\ recoveries = 0
          /\ saves = 0 /\ save_result = "none")
  /\ [][WATCH_NAMES = <<>> => disk' = disk]_vars

\* the process has exited on an empty watchlist, with a seen-state file that
\* loading would not have survived
C14_Witness ==
  /\ WATCH_NAMES = <<>>
  /\ pc = "exited"
  /\ disk = FileOf("undecodable")

\* C15: a match message is never retried.  The fingerprint is in the seen
\* list before the message is handed to the sink, so a message the sink did
\* not deliver (a status other than 200, or a request error) leaves its
\* fingerprint marked, and it stays the only message for that record: no
\* later cycle sends another.
C15_NeverRetried ==
  /\ [](\A a \in undelivered :
          /\ seen[a.category].k = "list"
          /\ InList(a.id, seen[a.category].items)
          /\ Count(alerts, a) = 1)
  /\ [][\A a \in undelivered :
          a \in undelivered' /\ Count(alerts', a) = Count(alerts, a)]_vars

\* the message for Doe's booking was not delivered in cycle 1 (no pass has
\* failed, and every page lists Doe), and the pass over 'Booked Today' of
\* cycle 2 has read a page with the same record
C15_Witness ==
  /\ Alert("booked", IdDoe) \in undelivered
  /\ cycle = 2
  /\ pc = "released"
  /\ booked_success
  /\ failure_count = 0 /\ recoveries = 0
  /\ fetched.booked = [kind |-> "page", doc |-> DocMixed]
  /\ Count(alerts, Alert("booked", IdDoe)) = 1

NoDuplicates(items) ==
  \A i, j \in 1..Len(items) : items[i] = items[j] => i = j

IsPrefix(a, b) == Len(a) <= Len(b) /\ SubSeq(b, 1, Len(a)) = a

\* C16: when the loaded list of a category has no duplicates, the list in
\* memory never has any, after any number of cycles; fingerprints are only
\* appended at the end, so the list of a step before is a prefix of the list
\* after; and a file that was written holds both lists in that same order.
C16_OrderedNoDuplicates ==
  /\ [](\A c \in Categories :
          (pc # "start" /\ loaded[c].k = "list" /\ NoDuplicates(loaded[c].items))
            => /\ seen[c].k = "list"
               /\ NoDuplicates(seen[c].items)
               /\ IsPrefix(loaded[c].items, seen[c].items))
  /\ [][\A c \in Categories :
          (pc # "start" /\ seen[c].k = "list")
            => seen'[c].k = "list" /\ IsPrefix(seen[c].items, seen'[c].items)]_vars
  /\ [](pc = "sleep" /\ save_result = "ok" =>
          \A c \in Categories : disk[c] = seen[c])

\* a list loaded with one fingerprint has grown by another at its end, and the
\* file written after the cycle holds the two in that order
C16_Witness ==
  /\ pc = "sleep"
  /\ loaded.booked = JList(<<IdDoe>>)
  /\ seen.booked = JList(<<IdDoe, IdDoeJon>>)
  /\ save_result = "ok"
  /\ disk.booked.items = <<IdDoe, IdDoeJon>>

\* C17: no failure of the transport, of the extraction or of the persistence
\* is fatal.  Once the process has started with a non-empty watchlist it is
\* never ended by an exception, every step of a cycle can be taken, whatever
\* failed before, and after a cycle the next one can start.
C17_NoFailureFatal ==
  WATCH_NAMES # <<>> =>
    /\ pc # "crashed"
    /\ pc \in {"start", "booked", "released", "finish"} => ENABLED Next
    /\ (pc = "sleep" /\ cycle < MaxCycles) => ENABLED Sleep

\* the four fields of a record the claims speak of
Fields(record) ==
  <<record.last_name, record.first_name, record.booking_date,
    record.booking_number>>

\* the text of an element, without the whitespace around it
Text(t) == Strip(t)

\* the part of a link target after its last "/" (all of it without a "/")
TrailingSegment(href) ==
  LET starts == { k \in 1..(Len(href) + 1) :
                    /\ \A j \in k..Len(href) : href[j] # "/"
                    /\ k = 1 \/ href[k - 1] = "/" }
  IN  SubSeq(href, CHOOSE k \in starts : TRUE, Len(href))

\* the fields the claim gives for a row
ExpectedFields(row) ==
  LET name   == Text(row.name)
      commas == { k \in 1..Len(name) : name[k] = "," }
      first  == CHOOSE k \in commas : \A j \in commas : k <= j
  IN  << IF commas = {} THEN name ELSE Strip(SubSeq(name, 1, first - 1)),
         IF commas = {} THEN <<>> ELSE Strip(SubSeq(name, first + 1, Len(name))),
         Text(row.date),
         IF row.link THEN TrailingSegment(row.href) ELSE <<>> >>

HasTwoCells(row) == row.cells >= 2

\* the data rows of a table: the rows of its tbody, else the rows after the
\* header row
RowsOfData(doc) ==
  IF doc.tbody THEN doc.trs ELSE SubSeq(doc.trs, 2, Len(doc.trs))

\* C18: parse_results_table gives one record per data row with at least two
\* cells, in row order, and none for the rows with fewer cells; the name is
\* split at its first comma into trimmed last_name and first_name (all of it
\* is last_name when there is no comma), booking_date is the text of the
\* second cell, booking_number the last path segment of the link's target, or
\* empty without a link.  The rows ('Doe, John', '01/02/2024', '/x/123') and
\* ('Roe, Jane', '01/03/2024', no link) give (Doe, John, 01/02/2024, 123) and
\* (Roe, Jane, 01/03/2024, '').
C18_ParsedRecords ==
  (Returned("parse_results_table") /\ call.args[1].table) =>
    LET doc  == call.args[1]
        rows == SelectSeq(RowsOfData(doc), HasTwoCells)
        recs == result.value.records
    IN  /\ result.value.found
        /\ Len(recs) = Len(rows)
        /\ \A i \in 1..Len(rows) : Fields(recs[i]) = ExpectedFields(rows[i])
        /\ doc = DocExample =>
             /\ Len(recs) = 2
             /\ Fields(recs[1]) = <<W_Doe, T_John, RowExampleDoe.date, T_Number>>
             /\ Fields(recs[2]) =
                  <<<<"R","o","e">>, <<"J","a","n","e">>, RowExampleRoe.date, <<>> >>

\* the two rows of the example have been parsed
C18_Witness ==
  /\ Returned("parse_results_table")
  /\ call.args[1] = DocExample
  /\ Len(result.value.records) = 2
  /\ result.value.records[1].booking_number = T_Number
  /\ result.value.records[2].first_name = <<"J","a","n","e">>

\* C19: two records that differ in last_name, first_name, booking_date or
\* booking_number have different fingerprints: a record is not taken for
\* already seen because of a different record that was notified before.
C19_DistinctFingerprints ==
  (Returned("already_seen") /\ Fields(call.args[1]) # Fields(call.args[2]))
    => result.value = FALSE

\* what a step has added at the end of a list
Added(before, after) == SubSeq(after, Len(before) + 1, Len(after))

\* the pass over the category pc: what it may do to the lists and the messages
PassMarksMatches ==
  /\ \A o \in Categories \ {pc} : seen'[o] = seen[o]
  /\ seen[pc].k # "list" => (seen'[pc] = seen[pc] /\ alerts' = alerts)
  /\ seen[pc].k = "list" =>
       /\ seen'[pc].k = "list"
       /\ IsPrefix(seen[pc].items, seen'[pc].items)
       /\ LET new == Added(seen[pc].items, seen'[pc].items)
          IN  /\ \A i \in 1..Len(new) :
                   /\ fetched'[pc].kind = "page"
                   /\ new[i] \in MatchingIds(fetched'[pc].doc)
              /\ alerts' = alerts \o Tagged(pc, new)
  /\ (fetched'[pc].kind = "page" /\ MatchingIds(fetched'[pc].doc) = {})
       => seen' = seen

\* C20: only matching records are marked as seen.  In the pass over a
\* category, every fingerprint added to its list is that of a record of the
\* page just fetched for which name_matches is true, exactly one message is
\* sent per added fingerprint, and the other category's list is untouched; a
\* page without a matching record changes neither list, and no other step of
\* a cycle changes them.
C20_OnlyMatchesMarked ==
  /\ [][(pc \in Categories) => PassMarksMatches]_vars
  /\ [][(pc \in {"finish", "sleep"}) => (seen' = seen /\ alerts' = alerts)]_vars

\* both passes of the first cycle have marked the matching records of their
\* pages, and Roe, who is on the page of 'Released' but not on the watchlist,
\* is in neither list
C20_Witness ==
  /\ pc = "finish"
  /\ cycle = 1
  /\ loaded = EmptySeen
  /\ fetched.booked.doc = DocDoeTwice
  /\ fetched.released.doc = DocMixed
  /\ seen.booked.items = <<IdDoe>>
  /\ seen.released.items = <<IdDoe, IdDoeJon>>
  /\ alerts = <<Alert("booked", IdDoe), Alert("released", IdDoe),
               Alert("released", IdDoeJon)>>

\* the pass over the category pc has succeeded in this step
PassSucceeded ==
  IF pc = "booked" THEN booked_success' ELSE released_success'

\* a successful pass over the category pc decides by its own list alone: a
\* matching record of the page gets a message iff its fingerprint is not in
\* that list, wherever else it is; and the other list is left as it is
PassUsesOwnList ==
  /\ \A o \in Categories \ {pc} : seen'[o] = seen[o]
  /\ (PassSucceeded /\ seen[pc].k = "list") =>
       \A id \in MatchingIds(fetched'[pc].doc) :
         Count(Added(alerts, alerts'), Alert(pc, id)) =
           IF InList(id, seen[pc].items) THEN 0 ELSE 1

\* C21: the two seen lists are independent.  The pass over 'booked' reads and
\* changes only seen['booked'], the pass over 'released' only
\* seen['released']: a fingerprint notified as a booking does not suppress
\* the release message for a record with the same fingerprint, nor the other
\* way round.
C21_IndependentLists ==
  [][(pc \in Categories) => PassUsesOwnList]_vars

\* Doe was notified as released in cycle 1, when the pass over 'booked' sent
\* nothing, and the pass over 'booked' of cycle 2 has sent the booking
\* message for the same fingerprint
C21_Witness ==
  /\ cycle = 2
  /\ pc = "released"
  /\ fetched.booked.doc = DocDoeTwice
  /\ seen.released.items = <<IdDoe>>
  /\ seen.booked.items = <<IdDoe>>
  /\ alerts = <<Alert("released", IdDoe), Alert("booked", IdDoe)>>

====
